---- MODULE Spec2Model ----
(***************************************************************************)
(* The chat thread of src/src/chat.tsx (version "A") and of                *)
(* src/unnamed/part_000 (version "B"): the normalized client cache of the  *)
(* GET_MESSAGES query, the handlers that reconcile it (mutation update,    *)
(* messageAdded, messageUpdated, load-more merge, onQueryUpdated) and the  *)
(* server, network and user that drive them.                               *)
(***************************************************************************)
EXTENDS Integers, Sequences, FiniteSets, TLC

VARIABLES
  version,    \* which Chat component runs: "A" (chat.tsx) or "B" (part_000)
  inputText,  \* useState("") of the component
  now,        \* the last value Date.now() returned
  server,     \* the server's message list, oldest first
  events,     \* subscription events published and not yet delivered
  cache,      \* the client cache, non-optimistic data
  mutations,  \* the sendMessage mutations in flight with their optimistic
              \* layers, oldest first
  fetches,    \* the fetchMore requests in flight
  timers,     \* the cache writes scheduled by setTimeout
  last,       \* history: the handler that ran last, its input and the cache before
  hist        \* history: facts about what has happened so far

vars == <<version, inputText, now, server, events, cache, mutations, fetches,
          timers, last, hist>>

----------------------------------------------------------------------------
(* Bounds of the model *)

MaxCustomer == 2  \* messages the customer ever writes
MaxSends == 1     \* messages the server ever takes from sendMessage
MaxVer == 2       \* status changes (versions) of one server message
MaxClock == 1     \* values of Date.now()
MaxInFlight == 1  \* sendMessage mutations in flight at once
MaxEdges == 4     \* edges in the cached list
PageCap == 1      \* edges the server puts in one page
MaxCallers == 2   \* fetchMore calls waiting for one request
MaxTimers == 1    \* setTimeout callbacks pending at once
MaxLen == 2       \* edges of a list drawn as a handler's input

MESSAGES_PER_PAGE == 20

----------------------------------------------------------------------------
(* Values *)

Admin == "Admin"
Customer == "Customer"
MessageSender == {Admin, Customer}

Sending == "Sending"
Sent == "Sent"
Read == "Read"
MessageStatus == {Sending, Sent, Read}

\* What the user can type: text is a sequence of characters.
Texts == {<<>>, <<" ">>, <<"a">>}

\* String.prototype.trim: drops leading and trailing white space.
RECURSIVE TrimStart(_)
TrimStart(s) ==
  IF s # <<>> /\ Head(s) = " " THEN TrimStart(Tail(s)) ELSE s

RECURSIVE TrimEnd(_)
TrimEnd(s) ==
  IF s # <<>> /\ s[Len(s)] = " " THEN TrimEnd(SubSeq(s, 1, Len(s) - 1)) ELSE s

Trim(s) == TrimEnd(TrimStart(s))

\* Message ids are strings: `temp-<n>` made by the client, anything else by
\* the server.
TempId(n) == <<"temp", n>>
SrvId(n) == <<"srv", n>>
StartsWithTemp(id) == id[1] = "temp"

Null == <<>>
Undefined == 0 - 1
NoCursor == <<"null", 0>>

Message(id, text, status, updatedAt, sender) ==
  [id |-> id, text |-> text, status |-> status, updatedAt |-> updatedAt,
   sender |-> sender]

NoMessage == Message(NoCursor, <<>>, Sent, 0, Customer)

\* { __typename: "MessageEdge", node: newMessage, cursor: newMessage.id }
MessageEdge(node) == [node |-> node, cursor |-> node.id]

PageInfo(endCursor, hasNextPage) ==
  [endCursor |-> endCursor, hasNextPage |-> hasNextPage]

NoPageInfo == PageInfo(NoCursor, FALSE)

MessagesData(edges, pageInfo) ==
  [messages |-> [edges |-> edges, pageInfo |-> pageInfo]]

\* Array.prototype.some / filter / find over a sequence.
Some(s, P(_)) == \E i \in 1..Len(s) : P(s[i])
Filter(s, P(_)) == SelectSeq(s, P)

Range(s) == {s[i] : i \in 1..Len(s)}
EdgeIds(edges) == {edges[i].node.id : i \in 1..Len(edges)}
CountId(edges, id) == Cardinality({i \in 1..Len(edges) : edges[i].node.id = id})
NoDuplicates(edges) ==
  \A i, j \in 1..Len(edges) : edges[i].node.id = edges[j].node.id => i = j

\* JavaScript's a > b on two timestamps: false when either side is undefined.
JsGreater(a, b) ==
  IF a = Undefined \/ b = Undefined THEN FALSE ELSE a > b

----------------------------------------------------------------------------
(* The normalized cache: Message entities by id, and the messages field of *)
(* the GET_MESSAGES query ({first: 20}) holding edges that refer to them.  *)

NoEntities == [k \in {} |-> NoMessage]

EmptyCache ==
  [loaded |-> FALSE, edges |-> <<>>, pageInfo |-> NoPageInfo,
   entities |-> NoEntities]

\* cache.readQuery({query: GET_MESSAGES, variables: {first: 20}}): null when
\* the query was never written.
ReadQuery(c) ==
  IF ~c.loaded THEN Null
  ELSE MessagesData(
         [i \in 1..Len(c.edges) |->
            [node |-> c.entities[c.edges[i].ref], cursor |-> c.edges[i].cursor]],
         c.pageInfo)

\* Writing one object with an id merges its fields into the entity.
WriteEntity(c, m) ==
  [c EXCEPT !.entities =
     [k \in DOMAIN c.entities \cup {m.id} |->
        IF k = m.id THEN m ELSE c.entities[k]]]

\* cache.writeQuery({query: GET_MESSAGES, variables: {first: 20}, data}):
\* the edges become references, every node is merged into its entity (of two
\* nodes with one id the later one wins).
WriteQuery(c, data) ==
  LET edges == data.messages.edges
      ids == EdgeIds(edges)
      LastNode(id) ==
        edges[CHOOSE i \in 1..Len(edges) :
                /\ edges[i].node.id = id
                /\ \A j \in 1..Len(edges) : edges[j].node.id = id => j <= i].node
  IN [loaded |-> TRUE,
      edges |-> [i \in 1..Len(edges) |->
                   [ref |-> edges[i].node.id, cursor |-> edges[i].cursor]],
      pageInfo |-> data.messages.pageInfo,
      entities |-> [k \in DOMAIN c.entities \cup ids |->
                      IF k \in ids THEN LastNode(k) ELSE c.entities[k]]]

\* Modify with the updatedAt field function left out.
Modify_StatusOnly(c, id, status, updatedAt) ==
  IF id \notin DOMAIN c.entities THEN c
  ELSE [c EXCEPT !.entities[id].status = status]

\* cache.modify({id: cache.identify({__typename: "Message", id}), fields:
\* {status, updatedAt}}): nothing happens when the entity is not cached.
Modify(c, id, status, updatedAt) ==
  IF id \notin DOMAIN c.entities THEN c
  ELSE [c EXCEPT !.entities[id].status = status,
                 !.entities[id].updatedAt = updatedAt]

----------------------------------------------------------------------------
(* Version A, src/src/chat.tsx: the handlers as functions of the cache *)

\* optimisticResponse of useMutation(SEND_MESSAGE)
OptimisticResponse(text, dateNow) ==
  Message(TempId(dateNow), text, Sending, dateNow, Admin)

\* UpdateA without the check for an edge with that id.
UpdateA_NoCheck(c, newMessage) ==
  LET existing == ReadQuery(c) IN
  IF existing = Null THEN c
  ELSE WriteQuery(c,
         MessagesData(
           Append(existing.messages.edges, MessageEdge(newMessage)),
           existing.messages.pageInfo))

\* update(cache, {data: {sendMessage: newMessage}})
UpdateA(c, newMessage) ==
  LET existing == ReadQuery(c) IN
  IF existing = Null THEN c
  ELSE
    LET SameId(edge) == edge.node.id = newMessage.id
        exists == Some(existing.messages.edges, SameId)
    IN IF exists THEN c
       ELSE WriteQuery(c,
              MessagesData(
                Append(existing.messages.edges, MessageEdge(newMessage)),
                existing.messages.pageInfo))

\* MessageAddedA looking for the id alone, not for a matching temp- edge.
MessageAddedA_IdOnly(c, newMessage) ==
  LET existing == ReadQuery(c) IN
  IF existing = Null THEN c
  ELSE
    LET Known(edge) == edge.node.id = newMessage.id
        Kept(edge) ==
          \/ ~StartsWithTemp(edge.node.id)
          \/ edge.node.text # newMessage.text
          \/ edge.node.sender # newMessage.sender
    IN IF Some(existing.messages.edges, Known) THEN c
       ELSE WriteQuery(c,
              MessagesData(
                Append(Filter(existing.messages.edges, Kept),
                       MessageEdge(newMessage)),
                existing.messages.pageInfo))

\* useSubscription(MESSAGE_ADDED).onData
MessageAddedA(c, newMessage) ==
  LET existing == ReadQuery(c) IN
  IF existing = Null THEN c
  ELSE
    LET Known(edge) ==
          \/ edge.node.id = newMessage.id
          \/ /\ edge.node.text = newMessage.text
             /\ edge.node.sender = newMessage.sender
             /\ StartsWithTemp(edge.node.id)
        exists == Some(existing.messages.edges, Known)
        Kept(edge) ==
          \/ ~StartsWithTemp(edge.node.id)
          \/ edge.node.text # newMessage.text
          \/ edge.node.sender # newMessage.sender
    IN IF exists THEN c
       ELSE WriteQuery(c,
              MessagesData(
                Append(Filter(existing.messages.edges, Kept),
                       MessageEdge(newMessage)),
                existing.messages.pageInfo))

\* useSubscription(MESSAGE_UPDATED).onData
MessageUpdatedA(c, updatedMessage) ==
  Modify(c, updatedMessage.id, updatedMessage.status, updatedMessage.updatedAt)

\* UpdateQueryA with the fetched page put first.
UpdateQueryA_PageFirst(prev, fetchMoreResult) ==
  IF fetchMoreResult = Null THEN prev
  ELSE MessagesData(
         fetchMoreResult.messages.edges \o prev.messages.edges,
         fetchMoreResult.messages.pageInfo)

\* updateQuery of handleLoadMore
UpdateQueryA(prev, fetchMoreResult) ==
  IF fetchMoreResult = Null THEN prev
  ELSE MessagesData(
         prev.messages.edges \o fetchMoreResult.messages.edges,
         fetchMoreResult.messages.pageInfo)

----------------------------------------------------------------------------
(* Version B, src/unnamed/part_000: the handlers as functions of the cache *)

\* obj.name in JavaScript: undefined when the object has no such property.
Field(obj, name) == IF name \in DOMAIN obj THEN obj[name] ELSE Undefined

\* The payload data.data of a messageAdded event.
AddedPayload(msg) == [messageAdded |-> msg]
UpdatedPayload(msg) == [messageUpdated |-> msg]

\* useSubscription(MESSAGE_ADDED).onData, lines 118-137: whether the handler
\* gets as far as its writeQuery; payload is data.data
MessageAddedBWrites(c, payload) ==
  /\ payload.messageAdded # Null
  /\ ReadQuery(c) # Null
  /\ LET edges == ReadQuery(c).messages.edges
         found == {i \in 1..Len(edges) :
                     edges[i].node.id = payload.messageAdded.id}
         \* Array.prototype.find: the first match
         first == CHOOSE i \in found : \A j \in found : i <= j
     IN ~(/\ found # {}
          /\ JsGreater(edges[first].node.updatedAt,
                       Field(payload, "updatedAt")))

\* MessageAddedB appending without dropping the cached edge of that id.
MessageAddedB_NoFilter(c, payload) ==
  IF ~MessageAddedBWrites(c, payload) THEN c
  ELSE
    LET existing == ReadQuery(c)
    IN WriteQuery(c,
         MessagesData(
           Append(existing.messages.edges, MessageEdge(payload.messageAdded)),
           existing.messages.pageInfo))

\* useSubscription(MESSAGE_ADDED).onData
MessageAddedB(c, payload) ==
  IF ~MessageAddedBWrites(c, payload) THEN c
  ELSE
    LET existing == ReadQuery(c)
        Other(edge) == edge.node.id # payload.messageAdded.id
    IN WriteQuery(c,
         MessagesData(
           Append(Filter(existing.messages.edges, Other),
                  MessageEdge(payload.messageAdded)),
           existing.messages.pageInfo))

\* useSubscription(MESSAGE_UPDATED).onData; payload is data.data
MessageUpdatedB(c, payload) ==
  IF payload.messageUpdated = Null THEN c
  ELSE Modify(c, payload.messageUpdated.id, payload.messageUpdated.status,
              payload.messageUpdated.updatedAt)

\* updateQuery of handleLoadMore
UpdateQueryB(prev, fetchMoreResult) ==
  IF fetchMoreResult = Null THEN prev
  ELSE MessagesData(
         prev.messages.edges \o fetchMoreResult.messages.edges,
         fetchMoreResult.messages.pageInfo)

TimerDelay == 50

\* OnQueryUpdated keeping every result edge, the changed ones too.
OnQueryUpdated_NoFilter(previousData, result) ==
  IF previousData = Null \/ result = Null
  THEN [returns |-> FALSE, scheduled |-> <<>>]
  ELSE
    LET newMessages == result.messages.edges
        oldMessages == previousData.messages.edges
        Changed(oldMsg) ==
          ~\E i \in 1..Len(newMessages) :
              /\ newMessages[i].node.id = oldMsg.node.id
              /\ newMessages[i].node.updatedAt = oldMsg.node.updatedAt
        changedMessages == Filter(oldMessages, Changed)
    IN IF Len(changedMessages) = 0
       THEN [returns |-> FALSE, scheduled |-> <<>>]
       ELSE [returns |-> FALSE,
             scheduled |->
               <<[delay |-> TimerDelay,
                  data |-> MessagesData(
                             newMessages \o changedMessages,
                             previousData.messages.pageInfo)]>>]

\* onQueryUpdated(observableQuery, {result}): what it returns and the
\* writes it hands to setTimeout (none or one).
OnQueryUpdated(previousData, result) ==
  IF previousData = Null \/ result = Null
  THEN [returns |-> FALSE, scheduled |-> <<>>]
  ELSE
    LET newMessages == result.messages.edges
        oldMessages == previousData.messages.edges
        Changed(oldMsg) ==
          ~\E i \in 1..Len(newMessages) :
              /\ newMessages[i].node.id = oldMsg.node.id
              /\ newMessages[i].node.updatedAt = oldMsg.node.updatedAt
        changedMessages == Filter(oldMessages, Changed)
        NotChanged(msg) ==
          ~\E i \in 1..Len(changedMessages) :
              changedMessages[i].node.id = msg.node.id
    IN IF Len(changedMessages) = 0
       THEN [returns |-> FALSE, scheduled |-> <<>>]
       ELSE [returns |-> FALSE,
             scheduled |->
               <<[delay |-> TimerDelay,
                  data |-> MessagesData(
                             Filter(newMessages, NotChanged) \o changedMessages,
                             previousData.messages.pageInfo)]>>]

----------------------------------------------------------------------------
(* What the component does with a handler's result *)

\* fetchMore hands the fetched page to updateQuery and writes what it
\* returns back to the query it was called on.
UpdateQuery(prev, fetchMoreResult) ==
  IF version = "A" THEN UpdateQueryA(prev, fetchMoreResult)
  ELSE UpdateQueryB(prev, fetchMoreResult)

FetchMoreWrite(c, fetchMoreResult) ==
  IF ReadQuery(c) = Null THEN c
  ELSE WriteQuery(c, UpdateQuery(ReadQuery(c), fetchMoreResult))

\* messageAdded arrives with message msg
OnMessageAdded(c, msg) ==
  IF version = "A" THEN MessageAddedA(c, msg)
  ELSE MessageAddedB(c, AddedPayload(msg))

\* messageUpdated arrives with message msg
OnMessageUpdated(c, msg) ==
  IF version = "A" THEN MessageUpdatedA(c, msg)
  ELSE MessageUpdatedB(c, UpdatedPayload(msg))

\* A setTimeout callback of onQueryUpdated runs: client.writeQuery
TimerFires ==
  /\ timers # <<>>
  /\ cache' = WriteQuery(cache, Head(timers).data)
  /\ timers' = Tail(timers)
  /\ UNCHANGED <<version, inputText, now, server, events, mutations,
                 fetches, last, hist>>

----------------------------------------------------------------------------
(* SpecFn: every handler applied once to a cache and an input drawn from   *)
(* bounded sets.                                                           *)

Did(op, arg, out) == [op |-> op, pre |-> cache, arg |-> arg, out |-> out]

NothingYet == [op |-> "init", pre |-> EmptyCache, arg |-> Null, out |-> Null]

IdPool == {TempId(1), SrvId(1), SrvId(2)}

SeqUpTo(S, n) == UNION {[1..k -> S] : k \in 0..n}

CachedVariants(id) ==
  {Message(id, <<"a">>, Sending, 1, Admin),
   Message(id, <<"a">>, Sent, 2, Admin),
   Message(id, <<"b">>, Sent, 1, Customer),
   Message(id, <<"b">>, Read, 2, Admin)}

EventVariants(id) ==
  CachedVariants(id) \cup
  {Message(id, <<"a">>, Sent, 1, Customer),
   Message(id, <<"a">>, Read, 1, Admin)}

EventMessages == UNION {EventVariants(id) : id \in IdPool}

PageMessages == {Message(id, <<"a">>, Sent, 2, Admin) : id \in IdPool}

ResultMessages ==
  {Message(id, <<"a">>, Sent, u, Admin) : id \in IdPool, u \in {1, 2}}

EdgesOver(S) ==
  {[i \in 1..Len(q) |-> MessageEdge(q[i])] : q \in SeqUpTo(S, MaxLen)}

LastCursor(edges) ==
  IF edges = <<>> THEN NoCursor ELSE edges[Len(edges)].cursor

FetchedPages ==
  {MessagesData(e, PageInfo(LastCursor(e), h)) :
     e \in EdgesOver(PageMessages), h \in BOOLEAN}

\* A cache holding the list `ids`, with entities `ents` for at least its ids.
CacheWith(ids, ents, hasNextPage) ==
  [loaded |-> TRUE,
   edges |-> [i \in 1..Len(ids) |-> [ref |-> ids[i], cursor |-> ids[i]]],
   pageInfo |-> PageInfo(IF ids = <<>> THEN NoCursor ELSE ids[Len(ids)],
                         hasNextPage),
   entities |-> ents]

AnyCaches ==
  {EmptyCache} \cup
  UNION {
    UNION {
      {CacheWith(ids, ents, h) :
         ents \in {f \in [Range(ids) \cup extra -> EventMessages] :
                     \A k \in DOMAIN f : f[k] \in CachedVariants(k)},
         h \in BOOLEAN} :
      extra \in {{}, {SrvId(2)}}} :
    ids \in SeqUpTo(IdPool, MaxLen)}

InitFn ==
  /\ version \in {"A", "B"}
  /\ cache \in AnyCaches
  /\ inputText = <<>>
  /\ now = 0
  /\ server = <<>>
  /\ events = {}
  /\ mutations = <<>>
  /\ fetches = {}
  /\ timers = <<>>
  /\ last = NothingYet
  /\ hist = {}

env == <<version, inputText, now, server, events, mutations, fetches, hist>>

\* chat.tsx: messageAdded, messageUpdated
FnMessageAddedA ==
  /\ last.op = "init" /\ version = "A"
  /\ \E m \in EventMessages :
       /\ cache' = MessageAddedA(cache, m)
       /\ last' = Did("messageAddedA", m, Null)
  /\ UNCHANGED <<env, timers>>

FnMessageUpdatedA ==
  /\ last.op = "init" /\ version = "A"
  /\ \E m \in EventMessages :
       /\ cache' = MessageUpdatedA(cache, m)
       /\ last' = Did("messageUpdatedA", m, Null)
  /\ UNCHANGED <<env, timers>>

\* part_000: messageAdded, messageUpdated; the payload may hold no message
FnMessageAddedB ==
  /\ last.op = "init" /\ version = "B"
  /\ \E m \in EventMessages \cup {Null} :
       /\ cache' = MessageAddedB(cache, AddedPayload(m))
       /\ last' = Did("messageAddedB", AddedPayload(m),
                      MessageAddedBWrites(cache, AddedPayload(m)))
  /\ UNCHANGED <<env, timers>>

FnMessageUpdatedB ==
  /\ last.op = "init" /\ version = "B"
  /\ \E m \in EventMessages \cup {Null} :
       /\ cache' = MessageUpdatedB(cache, UpdatedPayload(m))
       /\ last' = Did("messageUpdatedB", UpdatedPayload(m), Null)
  /\ UNCHANGED <<env, timers>>

\* both: one fetchMore promise resolves
FnUpdateQuery ==
  /\ last.op = "init"
  /\ cache.loaded
  /\ \E p \in FetchedPages \cup {Null} :
       /\ cache' = FetchMoreWrite(cache, p)
       /\ last' = Did("updateQuery", p, UpdateQuery(ReadQuery(cache), p))
  /\ UNCHANGED <<env, timers>>

\* part_000: onQueryUpdated is called; setTimeout keeps what it schedules
FnOnQueryUpdated ==
  /\ last.op = "init" /\ version = "B"
  /\ \E r \in {MessagesData(e, cache.pageInfo) : e \in EdgesOver(ResultMessages)}
            \cup {Null} :
       /\ timers' = timers \o OnQueryUpdated(ReadQuery(cache), r).scheduled
       /\ last' = Did("onQueryUpdated",
                      [previousData |-> ReadQuery(cache), result |-> r],
                      OnQueryUpdated(ReadQuery(cache), r))
  /\ UNCHANGED <<env, cache>>

\* the scheduled write runs
FnTimerFires ==
  /\ timers # <<>>
  /\ cache' = WriteQuery(cache, Head(timers).data)
  /\ timers' = Tail(timers)
  /\ last' = Did("timer", Head(timers), Null)
  /\ UNCHANGED env

NextFn ==
  \/ FnMessageAddedA
  \/ FnMessageUpdatedA
  \/ FnMessageAddedB
  \/ FnMessageUpdatedB
  \/ FnUpdateQuery
  \/ FnOnQueryUpdated
  \/ FnTimerFires

SpecFn == InitFn /\ [][NextFn]_vars

----------------------------------------------------------------------------
(* Optimistic layers (chat.tsx).  The optimistic response of a mutation in *)
(* flight is written, and update() run on it, in a layer over the cache.   *)
(* The layer keeps what was written into it: its own copy of the messages  *)
(* field and of every entity written.  When a mutation completes its layer *)
(* is removed and the layers above it are replayed.                        *)

NoLayer ==
  [msg |-> NoMessage, wrote |-> FALSE, edges |-> <<>>, pageInfo |-> NoPageInfo,
   ents |-> NoEntities]

\* The layer made by the optimistic response msg over the view `parent`.
MakeLayer(parent, msg) ==
  LET c1 == WriteEntity(parent, msg)
      c2 == UpdateA(c1, msg)
      wrote == c2 # c1
  IN [msg |-> msg,
      wrote |-> wrote,
      edges |-> IF wrote THEN c2.edges ELSE <<>>,
      pageInfo |-> IF wrote THEN c2.pageInfo ELSE NoPageInfo,
      ents |-> IF wrote
               THEN [k \in {c2.edges[i].ref : i \in 1..Len(c2.edges)} \cup {msg.id}
                       |-> c2.entities[k]]
               ELSE [k \in {msg.id} |-> msg]]

\* What a read sees through a layer.
ThroughLayer(parent, layer) ==
  LET ents == [k \in DOMAIN parent.entities \cup DOMAIN layer.ents |->
                 IF k \in DOMAIN layer.ents THEN layer.ents[k]
                 ELSE parent.entities[k]]
  IN IF layer.wrote
     THEN [loaded |-> TRUE, edges |-> layer.edges, pageInfo |-> layer.pageInfo,
           entities |-> ents]
     ELSE [parent EXCEPT !.entities = ents]

RECURSIVE View(_, _)
View(base, muts) ==
  IF muts = <<>> THEN base
  ELSE ThroughLayer(View(base, SubSeq(muts, 1, Len(muts) - 1)),
                    muts[Len(muts)].layer)

RECURSIVE Replay(_, _)
Replay(parent, muts) ==
  IF muts = <<>> THEN <<>>
  ELSE LET l == MakeLayer(parent, Head(muts).layer.msg)
       IN <<[Head(muts) EXCEPT !.layer = l]>>
            \o Replay(ThroughLayer(parent, l), Tail(muts))

\* Mutation k completes on cache `base`: its layer goes, later ones replay.
Complete(base, muts, k) ==
  IF version = "A"
  THEN SubSeq(muts, 1, k - 1)
         \o Replay(View(base, SubSeq(muts, 1, k - 1)),
                   SubSeq(muts, k + 1, Len(muts)))
  ELSE SubSeq(muts, 1, k - 1) \o SubSeq(muts, k + 1, Len(muts))

\* `data` of useQuery: the query read through the optimistic layers.
Data ==
  IF version = "A" THEN ReadQuery(View(cache, mutations)) ELSE ReadQuery(cache)

DisplayedEdges == IF Data = Null THEN <<>> ELSE Data.messages.edges

----------------------------------------------------------------------------
(* The server: a list of messages, each at a version; it answers page      *)
(* requests and publishes messageAdded and messageUpdated events.          *)

StatusOf(v) == IF v = 1 THEN Sending ELSE IF v = 2 THEN Sent ELSE Read

Snapshot(n, v) ==
  Message(SrvId(n), server[n].text, StatusOf(v), v, server[n].sender)

Min(a, b) == IF a < b THEN a ELSE b

\* messages(first, after): the messages after the cursor, at most `first`
\* and at most PageCap of them.
Page(first, after) ==
  LET start == IF after = NoCursor THEN 0 ELSE after[2]
      end == Min(start + Min(first, PageCap), Len(server))
      edges == [i \in 1..(end - start) |->
                  MessageEdge(Snapshot(start + i, server[start + i].ver))]
  IN MessagesData(edges,
                  PageInfo(IF end > start THEN SrvId(end) ELSE NoCursor,
                           end < Len(server)))

Fact(fact, id, loaded) == [fact |-> fact, id |-> id, loaded |-> loaded]

WrittenBy(sender) ==
  Cardinality({n \in 1..Len(server) : server[n].sender = sender})

\* A customer writes a message.
ServerNewMessage ==
  /\ WrittenBy(Customer) < MaxCustomer
  /\ server' = Append(server, [text |-> <<"a">>, sender |-> Customer, ver |-> 1])
  /\ events' = events \cup {[type |-> "added", n |-> Len(server) + 1, ver |-> 1]}
  /\ UNCHANGED <<version, inputText, now, cache, mutations, fetches, timers,
                 last, hist>>

\* The status of a message changes.
ServerUpdatesStatus ==
  \E n \in 1..Len(server) :
    /\ server[n].ver < MaxVer
    /\ server' = [server EXCEPT ![n].ver = @ + 1]
    /\ events' = events \cup
                   {[type |-> "updated", n |-> n, ver |-> server[n].ver + 1]}
    /\ UNCHANGED <<version, inputText, now, cache, mutations, fetches, timers,
                   last, hist>>

\* The server executes a sendMessage mutation.
ServerHandlesSend ==
  \E k \in 1..Len(mutations) :
    /\ mutations[k].srv = 0
    /\ WrittenBy(Admin) < MaxSends
    /\ server' = Append(server,
                   [text |-> mutations[k].text, sender |-> Admin, ver |-> 1])
    /\ mutations' = [mutations EXCEPT ![k].srv = Len(server) + 1]
    /\ events' = events \cup {[type |-> "added", n |-> Len(server) + 1, ver |-> 1]}
    /\ UNCHANGED <<version, inputText, now, cache, fetches, timers, last, hist>>

----------------------------------------------------------------------------
(* The component *)

\* part_000 disables the input and the button while the query is loading.
InputEnabled == version = "A" \/ cache.loaded

\* onChange of the input
SetInputText ==
  \E t \in Texts :
    /\ InputEnabled
    /\ t # inputText
    /\ inputText' = t
    /\ UNCHANGED <<version, now, server, events, cache, mutations, fetches,
                   timers, last, hist>>

\* String.prototype.trim leaves nothing of the text
Sendable_NoTrim(text) == text # <<>>

\* handleSendMessage, whether it calls sendMessage
Sendable(text) == Trim(text) # <<>>

\* The body of handleSendMessage: the early return, setInputText("") and
\* sendMessage with the text as it was typed.
HandleSendMessageBody ==
  IF ~Sendable(inputText)
  THEN /\ InputEnabled
       /\ UNCHANGED <<version, inputText, now, server, events, cache,
                      mutations, fetches, timers, hist>>
  ELSE /\ InputEnabled
       /\ Len(mutations) < MaxInFlight
       /\ inputText' = <<>>
       /\ \E dateNow \in {now, now + 1} :
            /\ dateNow <= MaxClock
            /\ version = "B" => dateNow = now
            /\ now' = dateNow
            /\ mutations' = Append(mutations,
                 [text |-> inputText, srv |-> 0,
                  layer |-> IF version = "A"
                            THEN MakeLayer(View(cache, mutations),
                                           OptimisticResponse(inputText, dateNow))
                            ELSE NoLayer])
       /\ UNCHANGED <<version, server, events, cache, fetches, timers, hist>>

\* handleSendMessage: Enter or the Send button
HandleSendMessage == HandleSendMessageBody /\ UNCHANGED last

\* The result of sendMessage mutation k arrives.  chat.tsx: the result is
\* written, update() runs on the cache and the optimistic layer is removed.
\* part_000: the result is written and, when that changes what the query
\* reads, onQueryUpdated is called and setTimeout keeps what it schedules.
MutationResult(k) ==
  /\ mutations[k].srv # 0
  /\ LET newMessage == Snapshot(mutations[k].srv, 1)
         written == WriteEntity(cache, newMessage)
     IN IF version = "A"
        THEN /\ cache' = UpdateA(written, newMessage)
             /\ mutations' = Complete(UpdateA(written, newMessage), mutations, k)
             /\ UNCHANGED timers
        ELSE /\ cache' = written
             /\ mutations' = Complete(written, mutations, k)
             /\ IF cache.loaded /\ ReadQuery(written) # ReadQuery(cache)
                THEN /\ Len(timers) < MaxTimers
                     /\ timers' = timers \o
                          OnQueryUpdated(ReadQuery(cache), ReadQuery(written)).scheduled
                ELSE UNCHANGED timers
  /\ hist' = hist \cup {Fact("result", mutations[k].srv, cache.loaded)}
  /\ UNCHANGED <<version, inputText, now, server, events, fetches, last>>

\* sendMessage mutation k fails.
MutationError(k) ==
  /\ mutations' = Complete(cache, mutations, k)
  /\ UNCHANGED <<version, inputText, now, server, events, cache, fetches,
                 timers, last, hist>>

\* The result of useQuery(GET_MESSAGES, {first: 20}) arrives.
QueryLoaded ==
  /\ ~cache.loaded
  /\ cache' = WriteQuery(cache, Page(MESSAGES_PER_PAGE, NoCursor))
  /\ UNCHANGED <<version, inputText, now, server, events, mutations, fetches,
                 timers, last, hist>>

\* The variables handleLoadMore gives fetchMore.
FetchMoreVariables(data) ==
  [after |-> data.messages.pageInfo.endCursor, first |-> MESSAGES_PER_PAGE]

\* handleLoadMore, whether it calls fetchMore
WantsMore(data) ==
  /\ data # Null
  /\ data.messages.pageInfo.hasNextPage

\* handleLoadMore: endReached of the list.  Requests with the same variables
\* that are in flight together share one network request.
HandleLoadMore ==
  IF ~WantsMore(Data)
  THEN UNCHANGED vars
  ELSE LET v == FetchMoreVariables(Data)
           same == {r \in fetches : r.after = v.after /\ r.first = v.first}
       IN /\ \A r \in same : r.callers < MaxCallers
          /\ fetches' =
               IF same = {}
               THEN fetches \cup {[after |-> v.after, first |-> v.first,
                                   callers |-> 1]}
               ELSE {IF r \in same THEN [r EXCEPT !.callers = @ + 1] ELSE r :
                       r \in fetches}
          /\ UNCHANGED <<version, inputText, now, server, events, cache,
                         mutations, timers, last, hist>>

RECURSIVE Merged(_, _, _)
Merged(c, page, times) ==
  IF times = 0 THEN c ELSE Merged(FetchMoreWrite(c, page), page, times - 1)

\* The page of fetchMore request r arrives; every caller's updateQuery runs.
FetchMoreResponse(r) ==
  LET page == Page(r.first, r.after) IN
  /\ Len(cache.edges) + r.callers * Len(page.messages.edges) <= MaxEdges
  /\ cache' = Merged(cache, page, r.callers)
  /\ fetches' = fetches \ {r}
  /\ hist' = hist \cup
               IF page.messages.pageInfo.hasNextPage THEN {}
               ELSE {Fact("lastPage", 0, TRUE)}
  /\ UNCHANGED <<version, inputText, now, server, events, mutations, timers,
                 last>>

\* fetchMore request r ends without data.
FetchMoreNoResult(r) ==
  /\ cache' = FetchMoreWrite(cache, Null)
  /\ fetches' = fetches \ {r}
  /\ UNCHANGED <<version, inputText, now, server, events, mutations, timers,
                 last, hist>>

\* Subscription event e is delivered.
DeliverEvent(e) ==
  /\ events' = events \ {e}
  /\ IF e.type = "added"
     THEN /\ Len(cache.edges) < MaxEdges
          /\ cache' = OnMessageAdded(cache, Snapshot(e.n, e.ver))
          /\ hist' = hist \cup {Fact("event", e.n, cache.loaded)}
     ELSE /\ cache' = OnMessageUpdated(cache, Snapshot(e.n, e.ver))
          /\ UNCHANGED hist
  /\ UNCHANGED <<version, inputText, now, server, mutations, fetches, timers,
                 last>>

Init ==
  /\ version \in {"A", "B"}
  /\ inputText = <<>>
  /\ now = 0
  /\ server = <<>>
  /\ events = {}
  /\ cache = EmptyCache
  /\ mutations = <<>>
  /\ fetches = {}
  /\ timers = <<>>
  /\ last = NothingYet
  /\ hist = {}

Next ==
  \/ ServerNewMessage
  \/ ServerUpdatesStatus
  \/ ServerHandlesSend
  \/ SetInputText
  \/ HandleSendMessage
  \/ \E k \in 1..Len(mutations) : MutationResult(k)
  \/ \E k \in 1..Len(mutations) : MutationError(k)
  \/ QueryLoaded
  \/ HandleLoadMore
  \/ \E r \in fetches : FetchMoreResponse(r)
  \/ \E r \in fetches : FetchMoreNoResult(r)
  \/ \E e \in events : DeliverEvent(e)
  \/ TimerFires

Spec == Init /\ [][Next]_vars

\* part_000 alone
InitB == Init /\ version = "B"
SpecB == InitB /\ [][Next]_vars

\* chat.tsx alone
InitA == Init /\ version = "A"

\* chat.tsx: loading and paging the list, sending, and the messageAdded
\* events.  Status changes are left out: messageUpdated patches status and
\* updatedAt of an entity, which no handler of chat.tsx reads.
NextA ==
  \/ ServerNewMessage
  \/ ServerHandlesSend
  \/ SetInputText
  \/ HandleSendMessage
  \/ \E k \in 1..Len(mutations) : MutationResult(k)
  \/ \E k \in 1..Len(mutations) : MutationError(k)
  \/ QueryLoaded
  \/ HandleLoadMore
  \/ \E r \in fetches : FetchMoreResponse(r)
  \/ \E r \in fetches : FetchMoreNoResult(r)
  \/ \E e \in events : DeliverEvent(e)

SpecA == InitA /\ [][NextA]_vars

\* chat.tsx: the sends of the admin alone, each with its optimistic update,
\* its result or error and its messageAdded event, and the initial load.
NextSend ==
  \/ ServerHandlesSend
  \/ SetInputText
  \/ HandleSendMessage
  \/ \E k \in 1..Len(mutations) : MutationResult(k)
  \/ \E k \in 1..Len(mutations) : MutationError(k)
  \/ QueryLoaded
  \/ \E e \in events : DeliverEvent(e)

SpecSend == InitA /\ [][NextSend]_vars

----------------------------------------------------------------------------
(* SpecInput: handleSendMessage called once on a typed text, in both       *)
(* versions, over a cache that is empty or holds one message.              *)

\* What the input can hold: spaces and letters, up to MaxLen characters.
InputTexts == SeqUpTo({" ", "a"}, MaxLen)

InputCaches ==
  {EmptyCache} \cup
  UNION {{CacheWith(<<id>>, [k \in {id} |-> m], h) :
            m \in CachedVariants(id), h \in BOOLEAN} : id \in IdPool}

InitInput ==
  /\ version \in {"A", "B"}
  /\ cache \in InputCaches
  /\ inputText \in InputTexts
  /\ now = 0
  /\ server = <<>>
  /\ events = {}
  /\ mutations = <<>>
  /\ fetches = {}
  /\ timers = <<>>
  /\ last = NothingYet
  /\ hist = {}

\* Enter or the Send button, once; `out` is the number of sendMessage calls
FnHandleSendMessage ==
  /\ last.op = "init"
  /\ HandleSendMessageBody
  /\ last' = Did("handleSendMessage", inputText, Len(mutations') - Len(mutations))

NextInput == FnHandleSendMessage

SpecInput == InitInput /\ [][NextInput]_vars

----------------------------------------------------------------------------
(* Properties of the handlers *)

EdgesOf(c) == IF c.loaded THEN ReadQuery(c).messages.edges ELSE <<>>

\* C4: updateQuery (both versions) returns the previous edges followed by
\* the fetched page's edges, each in their order, with the fetched page's
\* pageInfo; without a fetchMoreResult it returns the previous data.
C4_UpdateQueryAppendsPage ==
  last.op = "updateQuery" =>
    LET prev == ReadQuery(last.pre)
        page == last.arg
        out == last.out
    IN IF page = Null THEN out = prev
       ELSE
         LET pe == prev.messages.edges
             fe == page.messages.edges
             oe == out.messages.edges
         IN /\ Len(oe) = Len(pe) + Len(fe)
            /\ \A i \in 1..Len(pe) : oe[i] = pe[i]
            /\ \A j \in 1..Len(fe) : oe[Len(pe) + j] = fe[j]
            /\ out.messages.pageInfo = page.messages.pageInfo

C4_Witness ==
  /\ last.op = "updateQuery"
  /\ version = "B"
  /\ last.arg # Null
  /\ Len(EdgesOf(last.pre)) >= 2
  /\ Len(last.arg.messages.edges) >= 2
  /\ last.arg.messages.pageInfo # last.pre.pageInfo

UpdatedOf(l) ==
  IF l.op = "messageUpdatedA" THEN l.arg ELSE l.arg.messageUpdated

\* C5: a messageUpdated event (both versions) sets status and updatedAt of
\* the cached Message with the event's id to the event's values and changes
\* nothing else: not that message's id, text and sender, no other message,
\* not the edge list; with no such Message cached the cache is unchanged.
C5_MessageUpdatedPatchesEntity ==
  (last.op \in {"messageUpdatedA", "messageUpdatedB"} /\ UpdatedOf(last) # Null) =>
    LET m == UpdatedOf(last)
        pre == last.pre
    IN IF m.id \in DOMAIN pre.entities
       THEN /\ cache.entities[m.id].status = m.status
            /\ cache.entities[m.id].updatedAt = m.updatedAt
            /\ cache.entities[m.id].id = pre.entities[m.id].id
            /\ cache.entities[m.id].text = pre.entities[m.id].text
            /\ cache.entities[m.id].sender = pre.entities[m.id].sender
            /\ DOMAIN cache.entities = DOMAIN pre.entities
            /\ \A k \in DOMAIN pre.entities \ {m.id} :
                 cache.entities[k] = pre.entities[k]
            /\ cache.edges = pre.edges
            /\ cache.pageInfo = pre.pageInfo
            /\ cache.loaded = pre.loaded
       ELSE cache = pre

C5_Witness ==
  /\ last.op = "messageUpdatedA"
  /\ last.arg.id \in DOMAIN last.pre.entities
  /\ last.pre.entities[last.arg.id].status # last.arg.status
  /\ last.pre.entities[last.arg.id].updatedAt > last.arg.updatedAt
  /\ last.pre.entities[last.arg.id].text # last.arg.text
  /\ Len(last.pre.edges) >= 2

MatchesA(edge, m) ==
  \/ edge.node.id = m.id
  \/ /\ StartsWithTemp(edge.node.id)
     /\ edge.node.text = m.text
     /\ edge.node.sender = m.sender

\* C7 (as claimed): chat.tsx's messageAdded handler leaves the cache
\* unchanged exactly when a cached edge has the event's id or is a temp-
\* edge with the event's text and sender; in every other case it appends one
\* edge holding the event's message, cursor equal to its id.
C7_Original ==
  last.op = "messageAddedA" =>
    LET m == last.arg
        before == EdgesOf(last.pre)
        known == \E i \in 1..Len(before) : MatchesA(before[i], m)
    IN /\ (cache = last.pre) <=> known
       /\ ~known => EdgesOf(cache) = Append(before, MessageEdge(m))

\* C7 (amended): the above when the GET_MESSAGES result is cached; when it
\* is not, the handler leaves the cache unchanged.
C7_MessageAddedA ==
  last.op = "messageAddedA" =>
    LET m == last.arg
        before == EdgesOf(last.pre)
        known == \E i \in 1..Len(before) : MatchesA(before[i], m)
    IN IF ~last.pre.loaded THEN cache = last.pre
       ELSE /\ (cache = last.pre) <=> known
            /\ ~known =>
                 /\ EdgesOf(cache) = Append(before, MessageEdge(m))
                 /\ cache.pageInfo = last.pre.pageInfo

C7_Witness ==
  /\ last.op = "messageAddedA"
  /\ last.pre.loaded
  /\ cache = last.pre
  /\ \A i \in 1..Len(EdgesOf(last.pre)) :
       EdgesOf(last.pre)[i].node.id # last.arg.id
  /\ \E i \in 1..Len(EdgesOf(last.pre)) :
       MatchesA(EdgesOf(last.pre)[i], last.arg)

\* C8: when part_000's messageAdded handler writes, the list then holds
\* exactly one edge with the event's id, it is the last edge and holds the
\* event's message with cursor equal to its id, and the other edges are the
\* previous ones in their previous order.
C8_MessageAddedBMovesToEnd ==
  (last.op = "messageAddedB" /\ last.out = TRUE) =>
    LET m == last.arg.messageAdded
        before == EdgesOf(last.pre)
        e == EdgesOf(cache)
        Other(edge) == edge.node.id # m.id
    IN /\ cache.loaded
       /\ CountId(e, m.id) = 1
       /\ e[Len(e)] = MessageEdge(m)
       /\ SubSeq(e, 1, Len(e) - 1) = Filter(before, Other)

C8_Witness ==
  /\ last.op = "messageAddedB"
  /\ last.out = TRUE
  /\ Len(EdgesOf(last.pre)) >= 2
  /\ EdgesOf(last.pre)[1].node.id = last.arg.messageAdded.id
  /\ EdgesOf(last.pre)[2].node.id # last.arg.messageAdded.id
  /\ EdgesOf(last.pre)[1].node # last.arg.messageAdded

\* C9: onQueryUpdated returns false; it schedules nothing when previous or
\* result data is missing or every previous edge has a result edge with its
\* id and updatedAt; otherwise it schedules one write, 50 ms later, of the
\* result edges without the changed ids followed by the changed previous
\* edges, a list without duplicate ids when the two inputs had none.
C9_OnQueryUpdated ==
  last.op = "onQueryUpdated" =>
    LET prev == last.arg.previousData
        res == last.arg.result
        out == last.out
    IN /\ out.returns = FALSE
       /\ timers = out.scheduled
       /\ IF prev = Null \/ res = Null THEN out.scheduled = <<>>
          ELSE
            LET pe == prev.messages.edges
                re == res.messages.edges
                changedAt == {i \in 1..Len(pe) :
                                \A j \in 1..Len(re) :
                                  \/ re[j].node.id # pe[i].node.id
                                  \/ re[j].node.updatedAt # pe[i].node.updatedAt}
                changedIds == {pe[i].node.id : i \in changedAt}
                IsChanged(edge) == \E i \in changedAt : pe[i] = edge
                Untouched(edge) == edge.node.id \notin changedIds
            IN IF changedAt = {} THEN out.scheduled = <<>>
               ELSE /\ Len(out.scheduled) = 1
                    /\ out.scheduled[1].delay = 50
                    /\ out.scheduled[1].data.messages.edges =
                         Filter(re, Untouched) \o Filter(pe, IsChanged)
                    /\ (NoDuplicates(pe) /\ NoDuplicates(re)) =>
                         NoDuplicates(out.scheduled[1].data.messages.edges)

C9_Witness ==
  /\ last.op = "onQueryUpdated"
  /\ Len(last.out.scheduled) = 1
  /\ NoDuplicates(last.arg.previousData.messages.edges)
  /\ NoDuplicates(last.arg.result.messages.edges)
  /\ Len(last.arg.previousData.messages.edges) >= 2
  /\ \E i \in 1..Len(last.arg.result.messages.edges) :
       /\ last.arg.result.messages.edges[i].node.id =
            last.arg.previousData.messages.edges[1].node.id
       /\ last.arg.result.messages.edges[i].node.updatedAt #
            last.arg.previousData.messages.edges[1].node.updatedAt
  /\ Len(last.out.scheduled[1].data.messages.edges) >= 2

----------------------------------------------------------------------------
(* Properties of the running component *)

ResultSeen(n) == \E b \in BOOLEAN : Fact("result", n, b) \in hist
EventSeen(n) == \E b \in BOOLEAN : Fact("event", n, b) \in hist

ShowsOptimistic(edges, t) ==
  \E i \in 1..Len(edges) :
    /\ StartsWithTemp(edges[i].node.id)
    /\ edges[i].node.text = t
    /\ edges[i].node.status = Sending
    /\ edges[i].node.sender = Admin

Shows(edges, id) == \E i \in 1..Len(edges) : edges[i].node.id = id

\* C2 (as claimed): chat.tsx: as soon as sendMessage is invoked with text t
\* the displayed list holds a message with a temp- id, text t, status
\* Sending and sender Admin; once that mutation has completed, with a
\* result or an error, no edge with its temp- id is left in the list.
C2_Original ==
  [][/\ Len(mutations') > Len(mutations) =>
          ShowsOptimistic(DisplayedEdges', inputText)
     /\ \A k \in 1..Len(mutations) :
          (MutationResult(k) \/ MutationError(k)) =>
            ~Shows(DisplayedEdges', mutations[k].layer.msg.id)]_vars

\* C3 (as claimed): chat.tsx: whatever pages were loaded and merged and
\* whatever was sent and received, no two edges of the cached list have the
\* same node id.
C3_NoDuplicateIds ==
  version = "A" => NoDuplicates(EdgesOf(cache))

\* C6 (as claimed), on the running component: a messageAdded event older
\* than the cached message of its id is dropped by part_000.
C6_StaleEventDropped ==
  [][\A e \in events :
       (/\ version = "B"
        /\ e.type = "added"
        /\ DeliverEvent(e)
        /\ \E i \in 1..Len(EdgesOf(cache)) :
             /\ EdgesOf(cache)[i].node.id = SrvId(e.n)
             /\ EdgesOf(cache)[i].node.updatedAt > Snapshot(e.n, e.ver).updatedAt)
       => cache' = cache]_vars

\* The requests a step adds to those in flight.
Issued == fetches' \ fetches

\* C10 (as claimed): handleLoadMore calls fetchMore only when the cached
\* pageInfo.hasNextPage is true, with after the cached endCursor and first
\* 20; once a page with hasNextPage false has been merged no endReached
\* calls fetchMore again.
C10_LoadMoreStops ==
  [][\A r \in Issued :
       /\ Data # Null
       /\ Data.messages.pageInfo.hasNextPage = TRUE
       /\ r.after = Data.messages.pageInfo.endCursor
       /\ r.first = 20
       /\ Fact("lastPage", 0, TRUE) \notin hist]_vars

\* A text that is empty or made of spaces only
Blank(text) == \A i \in 1..Len(text) : text[i] = " "

\* C11: in both versions, handleSendMessage called while the input text is
\* empty or only white space sends no mutation and leaves the input text
\* and the cached message list (the cache and what is displayed of it) as
\* they were.
C11_BlankTextSendsNothing ==
  (last.op = "handleSendMessage" /\ Blank(last.arg)) =>
    /\ last.out = 0
    /\ mutations = <<>>
    /\ inputText = last.arg
    /\ cache = last.pre
    /\ DisplayedEdges = EdgesOf(last.pre)

C11_Witness ==
  /\ last.op = "handleSendMessage"
  /\ Len(last.arg) >= 1
  /\ Blank(last.arg)
  /\ version = "B"
  /\ EdgesOf(last.pre) # <<>>

====
